---- MODULE Spec2Model ----
(***************************************************************************)
(* Model of the transactional table engine of nemoa (nemoa/db/table.py):  *)
(* Record state flags and hooks, the Table verbs insert, update, delete,  *)
(* commit and rollback, the committed store `data`, the overlay `diff`    *)
(* and the master index.                                                   *)
(*                                                                         *)
(* Python objects are modelled by value.  A Record object lives in at     *)
(* most one slot of the table (data[id] or diff[id]); a reference a       *)
(* caller keeps to a Record is the variable `held`, which names the slot  *)
(* the object sits in, or carries the object itself once the table has    *)
(* let go of it ("free").                                                  *)
(***************************************************************************)
EXTENDS Integers, Sequences, FiniteSets, TLC

(* ---------------------------------------------------------------- bounds *)

\* Largest len(data) the model explores (row ids are 0 .. MaxRows-1).
MaxRows == 2

\* Field values of the two columns. Schema as in the repository's test table:
\* ('uid', int) without default and ('gid', int, {'default': 0}).
Val == {0, 1}
DefaultGid == 0
Omitted == 0 - 1        \* the caller gave no value for the column
BadType == 0 - 2        \* a value that is not an int (fails check.has_type)

(* ------------------------------------------------------------- constants *)

RECORD_STATE_FLAG_CREATE == 1
RECORD_STATE_FLAG_UPDATE == 2
RECORD_STATE_FLAG_DELETE == 4

HasFlag(state, flag) == (state \div flag) % 2 = 1
SetFlag(state, flag) == IF HasFlag(state, flag) THEN state ELSE state + flag

\* Python's None in a slot of data or diff.
None == [id |-> 0 - 1, state |-> 0, uid |-> 0, gid |-> 0]

NoHeld == [loc |-> "none", id |-> 0, rec |-> None]

\* Table.create has set the name, the metadata and the record class.
Created == [record |-> TRUE, metadata |-> TRUE, name |-> TRUE]

\* Proxy mode flags
PROXY_MODE_FLAG_CACHE == 1
PROXY_MODE_FLAG_INCREMENTAL == 2
PROXY_MODE_FLAG_READONLY == 4

\* push() has not been called by the last commit.
NotPushed == [called |-> FALSE, dirty |-> FALSE, rows |-> <<>>]

\* A plain Table: there is no proxy mode and no external source.
NoProxy == [mode |-> 0 - 1, remote |-> <<>>, saw |-> NotPushed]

\* Cursor mode flags
CURSOR_MODE_FLAG_BUFFERED == 1
CURSOR_MODE_FLAG_INDEXED == 2
CURSOR_MODE_FLAG_SCROLLABLE == 4
CURSOR_MODE_FLAG_RANDOM == 8

\* fetch() called without a size.
NoSize == 0 - 9

\* No Cursor has been constructed. pos is the position of the list iterator,
\* -1 once it is exhausted; out holds what the last call on the cursor
\* returned and arg the size it was given. born is history: the index of the
\* table and the field values of the result set when the cursor was
\* constructed.
NoCursor ==
    [mode |-> 0 - 1, where |-> [col |-> "all", val |-> 0], sorter |-> "none",
     batchsize |-> 1, index |-> <<>>, buffer |-> <<>>, pos |-> 0,
     out |-> <<>>, arg |-> NoSize, count |-> 0 - 1,
     born |-> [index |-> <<>>, rows |-> <<>>]]

(* ----------------------------------------------------------------- state *)

VARIABLES
    data,       \* Table._data: committed records, None for placeholder/tombstone
    diff,       \* Table._diff: staged records, None where nothing is staged
    index,      \* Table._index: list of visible row ids
    held,       \* a Record reference kept by the caller
    err,        \* exception raised by the last call ("none" if it returned)
    last,       \* the last call: its name, inputs and what it touched
    txn,        \* history: what the calls since the last commit/rollback did
    snap,       \* history: select() and the stored values right after the last commit
    gone,       \* history: ids whose deletion was committed
    proxy,      \* Proxy._proxy_mode, the external source, what push() observed
    cursor,     \* a Cursor the caller has constructed on the table
    header      \* which of the record class, the metadata and the name
                \* the table has

\* What a specification of the plain Table leaves alone.
ext == <<proxy, cursor, header>>

vars ==
    <<data, diff, index, held, err, last, txn, snap, gone, proxy, cursor,
      header>>

\* The table as one value, so that a call can be composed of other calls.
\* hooks counts the hook invocations of the call, seen collects the row ids
\* whose Record the call acted on.
Cur == [data |-> data, diff |-> diff, index |-> index, held |-> held,
        err |-> "none", hooks |-> 0, seen |-> {}]

\* The row ids the table has given out and still has a slot for.
RowIds == 0..(Len(data) - 1)

(* ------------------------------------------------------- list primitives *)

Contains(seq, x) == \E i \in 1..Len(seq) : seq[i] = x

\* list.remove(x) on a list that holds x: drops the first occurrence.
RemoveFirst(seq, x) ==
    LET i == CHOOSE k \in 1..Len(seq) :
                 seq[k] = x /\ \A j \in 1..(k - 1) : seq[j] # x
    IN  SubSeq(seq, 1, i - 1) \o SubSeq(seq, i + 1, Len(seq))

Raise(t, e) == [t EXCEPT !.err = e]

(* ------------------------------------------------------ object references *)

\* Table.row: self._diff[rowid] or self._data[rowid]
Row(t, rowid) ==
    IF t.diff[rowid + 1] # None THEN t.diff[rowid + 1] ELSE t.data[rowid + 1]

\* The slot holding the object that Table.row(rowid) returns.
RowRef(t, rowid) ==
    IF t.diff[rowid + 1] # None THEN [loc |-> "diff", id |-> rowid]
    ELSE [loc |-> "data", id |-> rowid]

HeldRef(t) == [loc |-> t.held.loc, id |-> t.held.id]

Deref(t, ref) ==
    IF ref.loc = "data" THEN t.data[ref.id + 1]
    ELSE IF ref.loc = "diff" THEN t.diff[ref.id + 1]
    ELSE t.held.rec

\* Assign the attribute _state of the object behind ref.
SetState(t, ref, state) ==
    IF ref.loc = "data" THEN [t EXCEPT !.data[ref.id + 1].state = state]
    ELSE IF ref.loc = "diff" THEN [t EXCEPT !.diff[ref.id + 1].state = state]
    ELSE [t EXCEPT !.held.rec.state = state]

\* self._diff[rowid] = rec: the object that was in the slot leaves the table;
\* a caller holding it keeps it.
SetDiff(t, rowid, rec) ==
    LET h == IF t.held.loc = "diff" /\ t.held.id = rowid
             THEN [loc |-> "free", id |-> 0, rec |-> t.diff[rowid + 1]]
             ELSE t.held
    IN  [t EXCEPT !.diff[rowid + 1] = rec, !.held = h]

\* self._data[rowid] = rec, likewise.
SetData(t, rowid, rec) ==
    LET h == IF t.held.loc = "data" /\ t.held.id = rowid
             THEN [loc |-> "free", id |-> 0, rec |-> t.data[rowid + 1]]
             ELSE t.held
    IN  [t EXCEPT !.data[rowid + 1] = rec, !.held = h]

\* Mutant: the staged records stay in diff.
ResetDiffSkipped(t) == t

\* self._diff = [None] * len(self._data)
ResetDiff(t) ==
    LET h == IF t.held.loc = "diff"
             THEN [loc |-> "free", id |-> 0, rec |-> t.diff[t.held.id + 1]]
             ELSE t.held
    IN  [t EXCEPT !.diff = [i \in 1..Len(t.data) |-> None], !.held = h]

(* ------------------------------------------------------------ the schema *)

\* What a caller may pass for one row. The positional tuples explored are
\* () and (uid,), which leave gid to its default; the mappings explored name
\* gid and may leave out uid.
RowLikes ==
    [kind : {"tuple"}, uid : Val \cup {Omitted, BadType}, gid : {Omitted}]
    \cup [kind : {"mapping"}, uid : Val \cup {Omitted},
          gid : Val \cup {BadType}]

\* Keyword arguments of update explored: gid=<value>, or none at all.
ChangeSet == [uid : {Omitted}, gid : Val \cup {Omitted}]

\* The where-clauses explored: none, or gid == <value>.
Preds ==
    {[col |-> "all", val |-> 0]} \cup [col : {"gid"}, val : Val]

Matches(where, row) ==
    IF where.col = "all" THEN TRUE
    ELSE IF where.col = "uid" THEN row.uid = where.val
    ELSE row.gid = where.val

\* Mutant: the new id is the length of the index.
GetNewRowidFromIndex(t) == Len(t.index)

\* Table._get_new_rowid
GetNewRowid(t) == Len(t.data)

\* The generated __init__ of the record class: "none" or the exception.
\* uid has no default; gid defaults to DefaultGid.
InitError(row) ==
    IF row.uid = Omitted THEN "TypeError" ELSE "none"

\* Record._validate: check.has_type on every field.
ValidateError(rec) ==
    IF rec.uid = BadType \/ rec.gid = BadType THEN "InvalidTypeError"
    ELSE "none"

\* Mutant: the declared default replaces the value the caller gave.
CreateRecordDefaultAlways(t, row) ==
    [id |-> Len(t.data),
     state |-> RECORD_STATE_FLAG_CREATE,
     uid |-> row.uid,
     gid |-> DefaultGid]

\* Table._create_record followed by Record.__post_init__ (valid input).
CreateRecord(t, row) ==
    [id |-> GetNewRowid(t),
     state |-> RECORD_STATE_FLAG_CREATE,
     uid |-> row.uid,
     gid |-> IF row.gid = Omitted THEN DefaultGid ELSE row.gid]

\* Table._append_rowid
AppendRowid(t, rowid) == [t EXCEPT !.index = Append(@, rowid)]

\* Mutant: the row is appended before its values are checked.
AppendRowUnchecked(t, row) ==
    LET rec == CreateRecord(t, row)
        t1 == AppendRowid([t EXCEPT !.data = Append(@, None),
                                    !.diff = Append(@, rec),
                                    !.seen = @ \cup {rec.id}], rec.id)
    IN  IF InitError(row) # "none" THEN Raise(t1, InitError(row))
        ELSE Raise(t1, ValidateError(rec))

\* Table._append_row
AppendRow(t, row) ==
    IF InitError(row) # "none" THEN Raise(t, InitError(row))
    ELSE LET rec == CreateRecord(t, row) IN
         IF ValidateError(rec) # "none" THEN Raise(t, ValidateError(rec))
         ELSE AppendRowid([t EXCEPT !.data = Append(@, None),
                                    !.diff = Append(@, rec),
                                    !.seen = @ \cup {rec.id}], rec.id)

\* Table.insert with a list: _append_row for each element, until one raises.
RECURSIVE InsertRows(_, _, _)
InsertRows(t, rows, i) ==
    IF i > Len(rows) \/ t.err # "none" THEN t
    ELSE InsertRows(AppendRow(t, rows[i]), rows, i + 1)

(* ------------------------------------------------------ hooks and Record *)

\* Mutant: the id is removed by position (del self._index[rowid]).
RemoveRowidByPosition(t, rowid) ==
    IF rowid + 1 <= Len(t.index)
    THEN [t EXCEPT !.index = SubSeq(@, 1, rowid)
                              \o SubSeq(@, rowid + 2, Len(@))]
    ELSE Raise(t, "IndexError")

\* Table._remove_rowid (the delete hook): list.remove raises if absent.
RemoveRowid(t, rowid) ==
    IF Contains(t.index, rowid)
    THEN [t EXCEPT !.index = RemoveFirst(@, rowid)]
    ELSE Raise(t, "ValueError")

\* dataclasses.replace(row, **kwds): a new Record, through __post_init__.
Replace(t, row, changes) ==
    [id |-> GetNewRowid(t),
     state |-> RECORD_STATE_FLAG_CREATE,
     uid |-> IF changes.uid = Omitted THEN row.uid ELSE changes.uid,
     gid |-> IF changes.gid = Omitted THEN row.gid ELSE changes.gid]

\* Mutant: the new values are also written to the record in data.
UpdateRowDiffInPlace(t, rowid, changes) ==
    IF rowid >= Len(t.diff) THEN Raise(t, "IndexError")
    ELSE LET row == Row(t, rowid) IN
         IF row = None THEN Raise(t, "RowLookupError")
         ELSE LET new_row == [Replace(t, row, changes) EXCEPT
                                  !.id = rowid, !.state = row.state]
                  t1 == SetDiff(t, rowid, new_row)
              IN  IF t.data[rowid + 1] = None THEN t1
                  ELSE SetData(t1, rowid, new_row)

\* Table._update_row_diff (the update hook)
UpdateRowDiff(t, rowid, changes) ==
    IF rowid >= Len(t.diff) THEN Raise(t, "IndexError")
    ELSE LET row == Row(t, rowid) IN
         IF row = None THEN Raise(t, "RowLookupError")
         ELSE LET new_row == [Replace(t, row, changes) EXCEPT
                                  !.id = rowid, !.state = row.state]
              IN  SetDiff(t, rowid, new_row)

\* Mutant: the flag is set and the delete hook is not called.
RecordDeleteNoHook(t, ref) ==
    LET rec == Deref(t, ref) IN
    IF HasFlag(rec.state, RECORD_STATE_FLAG_DELETE) THEN t
    ELSE SetState(t, ref, SetFlag(rec.state, RECORD_STATE_FLAG_DELETE))

\* Record._delete on the object behind ref
RecordDelete(t, ref) ==
    LET rec == Deref(t, ref) IN
    IF HasFlag(rec.state, RECORD_STATE_FLAG_DELETE) THEN t
    ELSE LET t1 == SetState(t, ref,
                       SetFlag(rec.state, RECORD_STATE_FLAG_DELETE))
         IN  RemoveRowid([t1 EXCEPT !.hooks = @ + 1], rec.id)

\* Mutant: the UPDATE flag is not tested, the update hook runs on every call.
RecordUpdateUnguarded(t, ref, changes) ==
    LET rec == Deref(t, ref)
        t1 == SetState(t, ref, SetFlag(rec.state, RECORD_STATE_FLAG_UPDATE))
    IN  UpdateRowDiff([t1 EXCEPT !.hooks = @ + 1], rec.id, changes)

\* Record._update on the object behind ref
RecordUpdate(t, ref, changes) ==
    LET rec == Deref(t, ref) IN
    IF HasFlag(rec.state, RECORD_STATE_FLAG_UPDATE) THEN t
    ELSE LET t1 == SetState(t, ref,
                       SetFlag(rec.state, RECORD_STATE_FLAG_UPDATE))
         IN  UpdateRowDiff([t1 EXCEPT !.hooks = @ + 1], rec.id, changes)

ClearFlag(state, flag) == IF HasFlag(state, flag) THEN state - flag ELSE state

\* Record._restore on the object behind ref; the restore hook is
\* Table._append_rowid.
RecordRestore(t, ref) ==
    LET rec == Deref(t, ref) IN
    IF ~HasFlag(rec.state, RECORD_STATE_FLAG_DELETE) THEN t
    ELSE LET t1 == SetState(t, ref,
                       ClearFlag(rec.state, RECORD_STATE_FLAG_DELETE))
         IN  AppendRowid([t1 EXCEPT !.hooks = @ + 1], rec.id)

\* Table._remove_row_diff (the revoke hook): self._diff[rowid] = None
RemoveRowDiff(t, rowid) ==
    IF rowid >= Len(t.diff) THEN Raise(t, "IndexError")
    ELSE SetDiff(t, rowid, None)

\* Record._revoke on the object behind ref
RecordRevoke(t, ref) ==
    LET rec == Deref(t, ref) IN
    IF ~HasFlag(rec.state, RECORD_STATE_FLAG_UPDATE) THEN t
    ELSE LET t1 == SetState(t, ref,
                       ClearFlag(rec.state, RECORD_STATE_FLAG_UPDATE))
         IN  RemoveRowDiff([t1 EXCEPT !.hooks = @ + 1], rec.id)

(* ---------------------------------------------------------------- Cursor *)

\* Cursor._create_index for the default mode (INDEXED): a copy of the
\* table's index, taken when the cursor is constructed.
CursorIndex(t) == t.index

\* Cursor._get_next_from_fixed_index, non-random: the getter runs on the live
\* table. A None row makes the predicate (or the caller) raise on attribute
\* access.
RowMissing(t, rowid) == rowid >= Len(t.diff) \/ Row(t, rowid) = None

(* ------------------------------------------------------------ Table verbs *)

\* Table.update: Record._update on every row the cursor yields
RECURSIVE UpdateRows(_, _, _, _, _)
UpdateRows(t, ids, i, where, changes) ==
    IF i > Len(ids) \/ t.err # "none" THEN t
    ELSE IF RowMissing(t, ids[i]) THEN Raise(t, "AttributeError")
    ELSE IF Matches(where, Row(t, ids[i]))
         THEN UpdateRows(
                  RecordUpdate([t EXCEPT !.seen = @ \cup {ids[i]}],
                               RowRef(t, ids[i]), changes),
                  ids, i + 1, where, changes)
         ELSE UpdateRows(t, ids, i + 1, where, changes)

TableUpdate(t, where, changes) ==
    UpdateRows(t, CursorIndex(t), 1, where, changes)

\* Table.delete: Record._delete on every row the cursor yields
RECURSIVE DeleteRows(_, _, _, _)
DeleteRows(t, ids, i, where) ==
    IF i > Len(ids) \/ t.err # "none" THEN t
    ELSE IF RowMissing(t, ids[i]) THEN Raise(t, "AttributeError")
    ELSE IF Matches(where, Row(t, ids[i]))
         THEN DeleteRows(
                  RecordDelete([t EXCEPT !.seen = @ \cup {ids[i]}],
                               RowRef(t, ids[i])),
                  ids, i + 1, where)
         ELSE DeleteRows(t, ids, i + 1, where)

TableDelete(t, where) == DeleteRows(t, CursorIndex(t), 1, where)

\* Mutant: the id leaves the index and data[rowid] is kept.
TombstoneIndexOnly(t, rowid) ==
    IF Contains(t.index, rowid)
    THEN [t EXCEPT !.index = RemoveFirst(@, rowid)]
    ELSE t

\* Table.commit, a DELETE-flagged row: data[rowid] = None, and the id leaves
\* the index if it is still there.
Tombstone(t, rowid) ==
    LET t1 == SetData(t, rowid, None) IN
    IF Contains(t1.index, rowid)
    THEN [t1 EXCEPT !.index = RemoveFirst(@, rowid)]
    ELSE t1

\* Mutant: commit promotes the staged record and keeps its state flags.
PromoteKeepsState(t, rowid) ==
    IF t.diff[rowid + 1] = None THEN Raise(t, "AttributeError")
    ELSE SetData(t, rowid, t.diff[rowid + 1])

\* Table.commit, a CREATE- or UPDATE-flagged row: data[rowid] = diff[rowid]
\* and data[rowid]._state = 0. The two slots then hold the same object.
Promote(t, rowid) ==
    IF t.diff[rowid + 1] = None
    THEN Raise(SetData(t, rowid, None), "AttributeError")
    ELSE LET rec == [t.diff[rowid + 1] EXCEPT !.state = 0]
             t1 == SetData(t, rowid, rec)
             h == IF t.held.loc = "diff" /\ t.held.id = rowid
                  THEN [loc |-> "data", id |-> rowid, rec |-> None]
                  ELSE t1.held
         IN  [t1 EXCEPT !.diff[rowid + 1] = rec, !.held = h]

\* Mutant: commit looks at the CREATE and UPDATE flags before the DELETE
\* flag.
CommitRowCreateFirst(t, rowid) ==
    LET row == Row(t, rowid) IN
    IF HasFlag(row.state, RECORD_STATE_FLAG_CREATE)
       \/ HasFlag(row.state, RECORD_STATE_FLAG_UPDATE)
    THEN Promote(t, rowid)
    ELSE IF HasFlag(row.state, RECORD_STATE_FLAG_DELETE)
         THEN Tombstone(t, rowid)
    ELSE t

\* Table.commit, the body of the loop for a row that is there: the DELETE
\* flag decides first, then CREATE or UPDATE.
CommitRow(t, rowid) ==
    LET row == Row(t, rowid) IN
    IF HasFlag(row.state, RECORD_STATE_FLAG_DELETE)
    THEN Tombstone(t, rowid)
    ELSE IF HasFlag(row.state, RECORD_STATE_FLAG_CREATE)
            \/ HasFlag(row.state, RECORD_STATE_FLAG_UPDATE)
         THEN Promote(t, rowid)
    ELSE t

\* The loop of Table.commit, rowid ascending
RECURSIVE CommitRows(_, _)
CommitRows(t, rowid) ==
    IF rowid >= Len(t.data) \/ t.err # "none" THEN t
    ELSE IF Row(t, rowid) = None THEN CommitRows(t, rowid + 1)
    ELSE CommitRows(CommitRow(t, rowid), rowid + 1)

\* Table.commit
TableCommit(t) ==
    LET t1 == CommitRows(t, 0) IN
    IF t1.err # "none" THEN t1 ELSE ResetDiff(t1)

\* Mutant: rollback leaves the created row in the index.
UnindexSkipped(t, rowid) == t

\* Mutant: rollback leaves the state flags of the stored record.
ResetRowStateSkipped(t, rowid) == t

\* Table.rollback, a CREATE-flagged row: the id leaves the index if it is
\* still there.
Unindex(t, rowid) ==
    IF Contains(t.index, rowid)
    THEN [t EXCEPT !.index = RemoveFirst(@, rowid)]
    ELSE t

\* Table.rollback, any other row: self._data[rowid]._state = 0
ResetRowState(t, rowid) ==
    IF t.data[rowid + 1] = None THEN Raise(t, "AttributeError")
    ELSE SetState(t, [loc |-> "data", id |-> rowid], 0)

\* The loop of Table.rollback, rowid ascending
RECURSIVE RollbackRows(_, _)
RollbackRows(t, rowid) ==
    IF rowid >= Len(t.data) \/ t.err # "none" THEN t
    ELSE LET row == Row(t, rowid) IN
    IF row = None THEN RollbackRows(t, rowid + 1)
    ELSE IF HasFlag(row.state, RECORD_STATE_FLAG_CREATE)
         THEN RollbackRows(Unindex(t, rowid), rowid + 1)
    ELSE RollbackRows(ResetRowState(t, rowid), rowid + 1)

\* Table.rollback
TableRollback(t) ==
    LET t1 == RollbackRows(t, 0) IN
    IF t1.err # "none" THEN t1 ELSE ResetDiff(t1)

\* The ids a forward-only indexed cursor with predicate `where` yields.
RECURSIVE CursorIds(_, _, _, _)
CursorIds(t, ids, i, where) ==
    IF i > Len(ids) THEN <<>>
    ELSE IF RowMissing(t, ids[i]) THEN <<0 - 1>>
    ELSE IF Matches(where, Row(t, ids[i]))
         THEN <<ids[i]>> \o CursorIds(t, ids, i + 1, where)
         ELSE CursorIds(t, ids, i + 1, where)

SelectIds(t, where) == CursorIds(t, CursorIndex(t), 1, where)

\* Table.select(where=...) with the default columns and dtype=tuple; a
\* missing row ends the result with the marker <<-1, -1>> (the call raises).
Select(t, where) ==
    LET ids == SelectIds(t, where) IN
    [i \in 1..Len(ids) |->
        IF ids[i] < 0 THEN <<0 - 1, 0 - 1>>
        ELSE <<Row(t, ids[i]).uid, Row(t, ids[i]).gid>>]

NoWhere == [col |-> "all", val |-> 0]

NoChange == [uid |-> Omitted, gid |-> Omitted]

\* The field values of a slot, <<-1, -1>> for None.
Fields(rec) == IF rec = None THEN <<0 - 1, 0 - 1>> ELSE <<rec.uid, rec.gid>>

\* What is recorded when a commit returns: the result of select() and the
\* field values of every slot of data.
Snapshot(t) ==
    [rows |-> Select(t, NoWhere),
     vals |-> [i \in 1..Len(t.data) |-> Fields(t.data[i])]]

(* ------------------------------------------------------- history records *)

\* What the calls since the last commit or rollback did: the ids they
\* inserted, the values each of these was inserted with, the ids a delete
\* and an update matched, and which verbs were called.
EmptyTxn ==
    [created |-> {}, expect |-> <<>>, dels |-> {}, upds |-> {}, kinds |-> {},
     base |-> <<>>]

\* A transaction begins on the table t: base is what select() returns then.
BeginTxn(hist, t) ==
    [EmptyTxn EXCEPT !.base = IF hist THEN Select(t, NoWhere) ELSE <<>>]

\* The field values the caller asked for, defaults filled in.
Expected(row) ==
    <<row.uid, IF row.gid = Omitted THEN DefaultGid ELSE row.gid>>

\* Expected values of the rows a call appended, by position in data.
RECURSIVE ExpectAfter(_, _, _, _)
ExpectAfter(expect, rows, i, n) ==
    IF i > Len(rows) \/ Len(expect) >= n THEN expect
    ELSE ExpectAfter(Append(expect, Expected(rows[i])), rows, i + 1, n)

\* expect is kept as long as data: ids inserted in earlier transactions
\* carry their committed or burnt marker <<-1, -1>>.
PadExpect(expect, n) ==
    [i \in 1..n |-> IF i <= Len(expect) THEN expect[i] ELSE <<0 - 1, 0 - 1>>]

Call(op) ==
    [op |-> op, ids |-> {}, dels |-> {}, upds |-> {}, kinds |-> {},
     expect |-> <<>>, changes |-> NoChange,
     hooks |-> 0, first |-> 0 - 1]

Apply(t) ==
    /\ data' = t.data
    /\ diff' = t.diff
    /\ index' = t.index
    /\ held' = t.held
    /\ err' = t.err

(* --------------------------------------------------------------- actions *)

Init ==
    /\ data = <<>>
    /\ diff = <<>>
    /\ index = <<>>
    /\ held = NoHeld
    /\ err = "none"
    /\ last = Call("create")
    /\ txn = EmptyTxn
    /\ snap = [rows |-> <<>>, vals |-> <<>>]
    /\ gone = {}
    /\ proxy = NoProxy
    /\ cursor = NoCursor
    /\ header = Created

\* Whether a specification records the history its claims read.
Keep(hist, new, old) == IF hist THEN new ELSE old

\* Table.insert(values) with a single row
Insert(rows, hist) ==
    \E row \in rows :
        /\ Len(data) < MaxRows
        /\ LET t == AppendRow(Cur, row) IN
           /\ Apply(t)
           /\ last' = Keep(hist, [Call("insert") EXCEPT !.ids = t.seen],
                           Call("insert"))
           /\ txn' = Keep(hist, [txn EXCEPT
                  !.created = @ \cup t.seen,
                  !.expect = ExpectAfter(PadExpect(@, Len(data)), <<row>>, 1,
                                         Len(t.data)),
                  !.kinds = @ \cup {"insert"}], txn)
        /\ UNCHANGED <<snap, gone, ext>>

\* Rows of a list insert: positional 1-tuples (uid,), one of them ill-typed.
BatchRows ==
    {r \in RowLikes : r.kind = "tuple" /\ r.uid # Omitted /\ r.gid = Omitted}

\* Table.insert(values) with a list of two rows
InsertMany ==
    \E r1 \in BatchRows, r2 \in BatchRows :
        /\ Len(data) + 2 <= MaxRows
        /\ LET t == InsertRows(Cur, <<r1, r2>>, 1) IN
           /\ Apply(t)
           /\ last' = [Call("insert") EXCEPT !.ids = t.seen,
                                               !.kinds = {"list"}]
           /\ txn' = [txn EXCEPT
                  !.created = @ \cup t.seen,
                  !.expect = ExpectAfter(PadExpect(@, Len(data)), <<r1, r2>>,
                                         1, Len(t.data)),
                  !.kinds = @ \cup {"insert"}]
        /\ UNCHANGED <<snap, gone, ext>>

\* Table.update(where, **changes)
Update(wheres, changeset, hist) ==
    \E where \in wheres, changes \in changeset :
        /\ LET t == TableUpdate(Cur, where, changes) IN
           /\ Apply(t)
           /\ last' = Call("update")
           /\ txn' = Keep(hist, [txn EXCEPT !.upds = @ \cup t.seen,
                                            !.kinds = @ \cup {"update"}], txn)
        /\ UNCHANGED <<snap, gone, ext>>

\* Table.delete(where)
Delete(wheres, hist) ==
    \E where \in wheres :
        /\ LET t == TableDelete(Cur, where) IN
           /\ Apply(t)
           /\ last' = Keep(hist, [Call("delete") EXCEPT !.ids = t.seen],
                           Call("delete"))
           /\ txn' = Keep(hist, [txn EXCEPT !.dels = @ \cup t.seen,
                                            !.kinds = @ \cup {"delete"}], txn)
        /\ UNCHANGED <<snap, gone, ext>>

\* Table.commit()
Commit(hist) ==
    /\ LET t == TableCommit(Cur) IN
       /\ Apply(t)
       /\ snap' = Keep(hist, Snapshot(t), snap)
    /\ last' = Keep(hist, [Call("commit") EXCEPT
           !.ids = txn.created, !.dels = txn.dels, !.upds = txn.upds,
           !.kinds = txn.kinds, !.expect = txn.expect], Call("commit"))
    /\ txn' = BeginTxn(hist, TableCommit(Cur))
    /\ gone' = Keep(hist, gone \cup txn.dels, gone)
    /\ UNCHANGED ext

\* Table.rollback()
Rollback(hist) ==
    /\ Apply(TableRollback(Cur))
    /\ last' = Keep(hist, [Call("rollback") EXCEPT
           !.ids = txn.created, !.dels = txn.dels, !.upds = txn.upds,
           !.kinds = txn.kinds, !.expect = txn.expect], Call("rollback"))
    /\ txn' = BeginTxn(hist, TableRollback(Cur))
    /\ UNCHANGED <<snap, gone, ext>>

Next ==
    \/ Insert(RowLikes, TRUE)
    \/ InsertMany
    \/ Update(Preds, ChangeSet, TRUE)
    \/ Delete(Preds, TRUE)
    \/ Commit(TRUE)
    \/ Rollback(TRUE)

Spec == Init /\ [][Next]_vars

(* ------------------------------------------- calls on a Record reference *)

\* rec = table.row(rowid), kept by the caller. A run takes one reference
\* and keeps it through every later call.
Hold ==
    \E rowid \in 0..(Len(data) - 1) :
        /\ held.loc = "none"
        /\ Row(Cur, rowid) # None
        /\ held' = [loc |-> RowRef(Cur, rowid).loc, id |-> rowid, rec |-> None]
        /\ err' = "none"
        /\ last' = Call("row")
        /\ UNCHANGED <<data, diff, index, txn, snap, gone, ext>>

\* rec._delete() on the kept Record. last.first is the number of hooks the
\* call before invoked if that was the same call on the same Record, else -1.
RecDelete ==
    /\ held.loc # "none"
    /\ LET t == RecordDelete(Cur, HeldRef(Cur)) IN
       /\ Apply(t)
       /\ last' = [Call("rec_delete") EXCEPT
              !.hooks = t.hooks,
              !.first = IF last.op = "rec_delete" THEN last.hooks ELSE 0 - 1]
    /\ UNCHANGED <<txn, snap, gone, ext>>

\* rec._update(**changes) on the kept Record
RecUpdate ==
    \E changes \in ChangeSet :
        /\ held.loc # "none"
        /\ LET t == RecordUpdate(Cur, HeldRef(Cur), changes) IN
           /\ Apply(t)
           /\ last' = [Call("rec_update") EXCEPT
                  !.changes = changes,
                  !.hooks = t.hooks,
                  !.first = IF last.op = "rec_update" /\ last.changes = changes
                            THEN last.hooks ELSE 0 - 1]
        /\ UNCHANGED <<txn, snap, gone, ext>>

\* Inputs of the Table verbs that run beside the calls on a kept Record.
RecRows == {r \in RowLikes : r.kind = "tuple" /\ r.uid = 0 /\ r.gid = Omitted}

RecPreds == {p \in Preds : p.col = "all"}

RecChanges == {c \in ChangeSet : c.gid = 1}

NextRec ==
    \/ Insert(RecRows, FALSE)
    \/ Update(RecPreds, RecChanges, FALSE)
    \/ Delete(RecPreds, FALSE)
    \/ Commit(FALSE)
    \/ Rollback(FALSE)
    \/ Hold \/ RecDelete \/ RecUpdate

\* The Table verbs together with calls on a Record the caller keeps.
SpecRec == Init /\ [][NextRec]_vars

(* ------------------------------------ calls on the Record row() returns *)

\* A call on table.row(rowid), the Record the table holds for the id now.
\* The ids whose Record is called directly: the first row, once inserted.
RowTargets == {rowid \in {0} : rowid < Len(data)}

\* last records the id.
RowCall(op, rowid, t) ==
    /\ Apply(t)
    /\ last' = [Call(op) EXCEPT !.ids = {rowid}]
    /\ UNCHANGED <<txn, snap, gone, ext>>

\* table.row(rowid)._delete()
RowDelete ==
    \E rowid \in RowTargets :
        /\ Row(Cur, rowid) # None
        /\ RowCall("row_delete", rowid, RecordDelete(Cur, RowRef(Cur, rowid)))

\* table.row(rowid)._restore(); the index is explored up to one entry more
\* than there are rows.
RowRestore ==
    \E rowid \in RowTargets :
        /\ Len(index) <= MaxRows
        /\ Row(Cur, rowid) # None
        /\ RowCall("row_restore", rowid,
                   RecordRestore(Cur, RowRef(Cur, rowid)))

\* table.row(rowid)._update(gid=...)
RowUpdate ==
    \E rowid \in RowTargets, changes \in RecChanges :
        /\ Row(Cur, rowid) # None
        /\ RowCall("row_update", rowid,
                   RecordUpdate(Cur, RowRef(Cur, rowid), changes))

\* table.row(rowid)._revoke()
RowRevoke ==
    \E rowid \in RowTargets :
        /\ Row(Cur, rowid) # None
        /\ RowCall("row_revoke", rowid, RecordRevoke(Cur, RowRef(Cur, rowid)))

\* The Table verbs together with Record delete and restore on the rows the
\* table holds.
NextRestore ==
    \/ Insert(RecRows, FALSE)
    \/ Update(Preds, RecChanges, FALSE)
    \/ Delete(Preds, FALSE)
    \/ Commit(FALSE)
    \/ Rollback(FALSE)
    \/ RowDelete \/ RowRestore

SpecRestore == Init /\ [][NextRestore]_vars

NextRow ==
    \/ Insert(RecRows, FALSE)
    \/ Update(RecPreds, RecChanges, FALSE)
    \/ Delete(RecPreds, FALSE)
    \/ Commit(FALSE)
    \/ Rollback(FALSE)
    \/ RowDelete \/ RowRestore \/ RowUpdate \/ RowRevoke

\* The Table verbs together with the state-flag operations of the Records
\* the table holds.
SpecRow == Init /\ [][NextRow]_vars

(* ----------------------------------------------------------------- Proxy *)

\* Every combination of the three proxy mode flags.
ProxyModes == 0..7

\* Staged changes are present: a diff slot is filled or a stored record
\* carries state flags.
Dirty(t) ==
    \/ \E i \in 1..Len(t.diff) : t.diff[i] # None
    \/ \E i \in 1..Len(t.data) : t.data[i] # None /\ t.data[i].state # 0

\* Mutant: push() reads the committed rows alone and not the staged ones.
PushCommittedRows(px, t, ok) ==
    LET c == [t EXCEPT !.diff = [i \in 1..Len(t.diff) |-> None]] IN
    [px EXCEPT !.saw = [called |-> TRUE, dirty |-> Dirty(t),
                        rows |-> Select(c, NoWhere)],
               !.remote = IF ok THEN Select(c, NoWhere) ELSE @]

\* push() of a concrete backend: it reads select() of the table it is called
\* on and writes the rows to the source, or fails and writes nothing.
Push(px, t, ok) ==
    [px EXCEPT !.saw = [called |-> TRUE, dirty |-> Dirty(t),
                        rows |-> Select(t, NoWhere)],
               !.remote = IF ok THEN Select(t, NoWhere) ELSE @]

\* Mutant: the READONLY flag is tested after the local commit.
ProxyCommitResultLate(px, t, ok) ==
    IF HasFlag(px.mode, PROXY_MODE_FLAG_READONLY)
    THEN [t |-> Raise(TableCommit(t), "ProxyError"),
          px |-> [px EXCEPT !.saw = NotPushed]]
    ELSE [t |-> TableCommit(t), px |-> Push(px, TableCommit(t), ok)]

\* Mutant: an INCREMENTAL proxy commits locally before it pushes.
ProxyCommitResultLocalFirst(px, t, ok) ==
    IF HasFlag(px.mode, PROXY_MODE_FLAG_READONLY)
    THEN [t |-> Raise(t, "ProxyError"), px |-> [px EXCEPT !.saw = NotPushed]]
    ELSE LET t1 == TableCommit(t) IN
         [t |-> IF ok THEN t1 ELSE Raise(t1, "PushError"),
          px |-> Push(px, t1, ok)]

\* Mutant: a proxy without INCREMENTAL pushes before it commits locally.
ProxyCommitResultPushFirst(px, t, ok) ==
    IF HasFlag(px.mode, PROXY_MODE_FLAG_READONLY)
    THEN [t |-> Raise(t, "ProxyError"), px |-> [px EXCEPT !.saw = NotPushed]]
    ELSE [t |-> IF ok THEN TableCommit(t) ELSE Raise(t, "PushError"),
          px |-> Push(px, t, ok)]

\* Proxy.commit: the table and the proxy when the call returns or raises.
\* ok tells whether push(), if it is called, succeeds.
ProxyCommitResult(px, t, ok) ==
    IF HasFlag(px.mode, PROXY_MODE_FLAG_READONLY)
    THEN [t |-> Raise(t, "ProxyError"), px |-> [px EXCEPT !.saw = NotPushed]]
    ELSE IF HasFlag(px.mode, PROXY_MODE_FLAG_INCREMENTAL)
    THEN [t |-> IF ok THEN TableCommit(t) ELSE Raise(t, "PushError"),
          px |-> Push(px, t, ok)]
    ELSE LET t1 == TableCommit(t) IN
         IF t1.err # "none"
         THEN [t |-> t1, px |-> [px EXCEPT !.saw = NotPushed]]
         ELSE [t |-> IF ok THEN t1 ELSE Raise(t1, "PushError"),
               px |-> Push(px, t1, ok)]

\* Proxy(proxy_mode): an empty table with the given mode.
InitProxy ==
    /\ data = <<>>
    /\ diff = <<>>
    /\ index = <<>>
    /\ held = NoHeld
    /\ err = "none"
    /\ last = Call("create")
    /\ txn = EmptyTxn
    /\ snap = [rows |-> <<>>, vals |-> <<>>]
    /\ gone = {}
    /\ proxy \in [mode : ProxyModes, remote : {<<>>}, saw : {NotPushed}]
    /\ cursor = NoCursor
    /\ header = Created

\* Proxy.commit()
ProxyCommit ==
    \E ok \in BOOLEAN :
        /\ LET r == ProxyCommitResult(proxy, Cur, ok) IN
           /\ Apply(r.t)
           /\ proxy' = r.px
        /\ last' = Call("proxy_commit")
        /\ UNCHANGED <<txn, snap, gone, cursor, header>>

NextProxy ==
    \/ Insert(RecRows, FALSE)
    \/ Update(Preds, RecChanges, FALSE)
    \/ Delete(Preds, FALSE)
    \/ Rollback(FALSE)
    \/ ProxyCommit

\* A Proxy: the Table verbs with Proxy.commit in place of Table.commit.
SpecProxy == InitProxy /\ [][NextProxy]_vars

(* -------------------------------------------------------- Cursor objects *)

\* Mode names, as the words of the string; <<>> is no mode given, and
\* "bogus" is a word that Cursor._set_mode does not look for.
ModeNames ==
    {<<>>, <<"bogus">>}
    \cup {<<tm, om>> : tm \in {"forward-only", "scrollable", "random"},
                       om \in {"dynamic", "indexed", "static"}}

\* '<token>' in name
HasToken(name, token) == \E i \in 1..Len(name) : name[i] = token

\* Cursor._set_mode
SetMode(name) ==
    (IF HasToken(name, "random") THEN CURSOR_MODE_FLAG_RANDOM
     ELSE IF HasToken(name, "scrollable") THEN CURSOR_MODE_FLAG_SCROLLABLE
     ELSE 0)
    + (IF HasToken(name, "static")
       THEN CURSOR_MODE_FLAG_BUFFERED + CURSOR_MODE_FLAG_INDEXED
       ELSE IF HasToken(name, "indexed") THEN CURSOR_MODE_FLAG_INDEXED
       ELSE 0)

\* Cursor._default_mode
DefaultMode(sorter) ==
    IF sorter # "none" THEN CURSOR_MODE_FLAG_BUFFERED
    ELSE CURSOR_MODE_FLAG_INDEXED

\* Mutant: a sorter is accepted by every mode.
CheckValidityNever(mode, sorter) == "none"

\* Cursor._check_validity: "none" or the exception
CheckValidity(mode, sorter) ==
    IF sorter # "none" /\ ~HasFlag(mode, CURSOR_MODE_FLAG_BUFFERED)
    THEN "CursorModeError"
    ELSE IF sorter # "none" /\ HasFlag(mode, CURSOR_MODE_FLAG_RANDOM)
    THEN "CursorModeError"
    ELSE "none"

\* Mutant: the cursor reads the list of the table, not a copy.
IndexOfParent(c, t) == t.index

\* self._index of a cursor: its own copy if the mode has INDEXED, else the
\* list of the parent table.
IndexOf(c, t) ==
    IF HasFlag(c.mode, CURSOR_MODE_FLAG_INDEXED) THEN c.index ELSE t.index

\* self._filter is set
HasFilter(c) == c.where.col # "all"

\* Mutant: the predicate is not applied.
NextFromIndexUnfiltered(c, t, pos) ==
    IF pos < 0 \/ pos >= Len(IndexOf(c, t))
    THEN [pos |-> 0 - 1, st |-> "StopIteration", row |-> None]
    ELSE [pos |-> pos + 1, st |-> "row",
          row |-> Row(t, IndexOf(c, t)[pos + 1])]

\* Cursor._get_next_from_fixed_index, not RANDOM, with the list iterator at
\* pos: the new position, how the call ends and the row it returns.
RECURSIVE NextFromIndex(_, _, _)
NextFromIndex(c, t, pos) ==
    IF pos < 0 \/ pos >= Len(IndexOf(c, t))
    THEN [pos |-> 0 - 1, st |-> "StopIteration", row |-> None]
    ELSE IF IndexOf(c, t)[pos + 1] >= Len(t.diff)
    THEN [pos |-> pos + 1, st |-> "IndexError", row |-> None]
    ELSE LET row == Row(t, IndexOf(c, t)[pos + 1]) IN
         IF ~HasFilter(c) THEN [pos |-> pos + 1, st |-> "row", row |-> row]
         ELSE IF row = None
         THEN [pos |-> pos + 1, st |-> "AttributeError", row |-> None]
         ELSE IF Matches(c.where, row)
         THEN [pos |-> pos + 1, st |-> "row", row |-> row]
         ELSE NextFromIndex(c, t, pos + 1)

\* One pass of the loop of _get_next_from_fixed_index with RANDOM: the number
\* drawn by random.randrange(len(self._index)) is handed to the getter.
DrawOutcome(c, t, drawn) ==
    LET row == Row(t, drawn) IN
    IF ~HasFilter(c) THEN [st |-> "row", row |-> row]
    ELSE IF row = None THEN [st |-> "AttributeError", row |-> None]
    ELSE IF Matches(c.where, row) THEN [st |-> "row", row |-> row]
    ELSE [st |-> "again", row |-> None]

\* How next() on a RANDOM cursor can end: with a row, with an exception
\* (randrange of an empty range raises ValueError), or never if no draw
\* ends the loop.
RandomOutcomes(c, t) ==
    IF ~HasFlag(c.mode, CURSOR_MODE_FLAG_RANDOM)
    THEN {[st |-> "diverges", row |-> None]}     \* no draw is made
    ELSE IF HasFlag(c.mode, CURSOR_MODE_FLAG_BUFFERED)
    THEN IF Len(c.buffer) = 0 THEN {[st |-> "ValueError", row |-> None]}
         ELSE {[st |-> "row", row |-> c.buffer[i]] : i \in 1..Len(c.buffer)}
    ELSE IF Len(IndexOf(c, t)) = 0 THEN {[st |-> "ValueError", row |-> None]}
    ELSE LET outs == {DrawOutcome(c, t, drawn) :
                          drawn \in 0..(Len(IndexOf(c, t)) - 1)}
                     \ {[st |-> "again", row |-> None]}
         IN  IF outs = {} THEN {[st |-> "diverges", row |-> None]} ELSE outs

\* Mutant: a cursor with a buffer reads the rows through its index and the
\* getter.
NextResultLive(c, t, pick) ==
    IF HasFlag(c.mode, CURSOR_MODE_FLAG_RANDOM)
    THEN [c |-> c, st |-> pick.st, row |-> pick.row]
    ELSE LET r == NextFromIndex(c, t, c.pos) IN
         [c |-> [c EXCEPT !.pos = r.pos], st |-> r.st, row |-> r.row]

\* Cursor.next: the cursor afterwards, how the call ends, the row returned.
\* pick is the outcome of the random draws of a RANDOM cursor.
NextResult(c, t, pick) ==
    IF HasFlag(c.mode, CURSOR_MODE_FLAG_RANDOM)
    THEN [c |-> c, st |-> pick.st, row |-> pick.row]
    ELSE IF HasFlag(c.mode, CURSOR_MODE_FLAG_BUFFERED)
    THEN IF c.pos < 0 \/ c.pos >= Len(c.buffer)
         THEN [c |-> [c EXCEPT !.pos = 0 - 1], st |-> "StopIteration",
               row |-> None]
         ELSE [c |-> [c EXCEPT !.pos = @ + 1], st |-> "row",
               row |-> c.buffer[c.pos + 1]]
    ELSE LET r == NextFromIndex(c, t, c.pos) IN
         [c |-> [c EXCEPT !.pos = r.pos], st |-> r.st, row |-> r.row]

\* The loop of Cursor.fetch. picks[k] is the outcome of the k-th next() of a
\* RANDOM cursor.
RECURSIVE FetchLoop(_, _, _, _, _)
FetchLoop(c, t, size, rows, picks) ==
    LET k == Len(rows) + 1
        r == NextResult(c, t, IF k <= Len(picks) THEN picks[k]
                              ELSE [st |-> "diverges", row |-> None])
    IN  IF r.st = "StopIteration"
        THEN [c |-> r.c, err |-> "none", out |-> rows]
        ELSE IF r.st # "row" THEN [c |-> r.c, err |-> r.st, out |-> <<>>]
        ELSE IF 0 < size /\ size <= k
        THEN [c |-> r.c, err |-> "none", out |-> Append(rows, r.row)]
        ELSE FetchLoop(r.c, t, size, Append(rows, r.row), picks)

\* Mutant: fetch() without a size fetches one row whatever batchsize is.
SizeOfDefault(c, arg) == IF arg = NoSize THEN 1 ELSE arg

\* The size fetch works with.
SizeOf(c, arg) == IF arg = NoSize THEN c.batchsize ELSE arg

\* Cursor.fetch
FetchResult(c, t, arg, picks) ==
    IF HasFlag(c.mode, CURSOR_MODE_FLAG_RANDOM) /\ SizeOf(c, arg) <= 0
    THEN [c |-> c, err |-> "CursorModeError", out |-> <<>>]
    ELSE FetchLoop(c, t, SizeOf(c, arg), <<>>, picks)

\* The sorters explored: none, or a callable that sorts the rows by gid
\* (sorted(rows, key=lambda row: row.gid), a stable sort).
Sorters == {"none", "bygid"}

RECURSIVE SortedFrom(_, _)
SortedFrom(rows, v) ==
    IF \A w \in Val : w < v THEN <<>>
    ELSE SelectSeq(rows, LAMBDA row : row.gid = v) \o SortedFrom(rows, v + 1)

\* buffer = self._sorter(buffer); the key function raises on a None row.
SortRows(rows, sorter) ==
    IF sorter = "none" THEN [err |-> "none", out |-> rows]
    ELSE IF \E i \in 1..Len(rows) : rows[i] = None
    THEN [err |-> "AttributeError", out |-> <<>>]
    ELSE [err |-> "none", out |-> SortedFrom(rows, 0)]

\* A cursor on the table with the given attributes, before its buffer is
\* made. Cursor._create_index copies the list for a mode with INDEXED.
NewCursor(t, mode, where, sorter, batchsize) ==
    [NoCursor EXCEPT
        !.mode = mode, !.where = where, !.sorter = sorter,
        !.batchsize = batchsize,
        !.index = IF HasFlag(mode, CURSOR_MODE_FLAG_INDEXED)
                  THEN t.index ELSE <<>>]

\* Cursor._create_buffer: a second cursor of the default mode over
\* self._index with the same predicate fetches all rows; the sorter orders
\* them.
CreateBuffer(c, t) ==
    LET sub == NewCursor([t EXCEPT !.index = IndexOf(c, t)],
                         CURSOR_MODE_FLAG_INDEXED, c.where, "none", 1)
        got == FetchResult(sub, t, 0 - 1, <<>>)
    IN  IF got.err # "none" THEN [err |-> got.err, out |-> <<>>]
        ELSE SortRows(got.out, c.sorter)

\* Cursor.__init__ on a table (Table._create_cursor): the cursor, or the
\* exception the constructor raises. batchsize 0 stands for None.
OpenResult(t, name, where, sorter, batchsize) ==
    LET mode == IF name # <<>> THEN SetMode(name) ELSE DefaultMode(sorter)
        c == NewCursor(t, mode, where, sorter,
                       IF batchsize # 0 THEN batchsize ELSE 1)
    IN  IF CheckValidity(mode, sorter) # "none"
        THEN [c |-> NoCursor, err |-> CheckValidity(mode, sorter)]
        ELSE IF HasFlag(mode, CURSOR_MODE_FLAG_BUFFERED)
        THEN IF CreateBuffer(c, t).err # "none"
             THEN [c |-> NoCursor, err |-> CreateBuffer(c, t).err]
             ELSE [c |-> [c EXCEPT !.buffer = CreateBuffer(c, t).out],
                   err |-> "none"]
        ELSE [c |-> c, err |-> "none"]

\* Mutant: reset leaves the iterator where it is.
ResetResultKeepsPosition(c) == c

\* Cursor.reset: a new iterator over the buffer or the index.
ResetResult(c) == [c EXCEPT !.pos = 0]

\* Mutant: rowcount counts the index also when a predicate is set.
RowcountResultUnfiltered(c, t) ==
    IF HasFlag(c.mode, CURSOR_MODE_FLAG_RANDOM)
    THEN [err |-> "CursorModeError", count |-> 0 - 1]
    ELSE IF HasFlag(c.mode, CURSOR_MODE_FLAG_BUFFERED)
    THEN [err |-> "none", count |-> Len(c.buffer)]
    ELSE [err |-> "none", count |-> Len(IndexOf(c, t))]

\* Cursor._get_rowcount
RowcountResult(c, t) ==
    IF HasFlag(c.mode, CURSOR_MODE_FLAG_RANDOM)
    THEN [err |-> "CursorModeError", count |-> 0 - 1]
    ELSE IF HasFlag(c.mode, CURSOR_MODE_FLAG_BUFFERED)
    THEN [err |-> "none", count |-> Len(c.buffer)]
    ELSE IF HasFilter(c)
    THEN [err |-> "CursorModeError", count |-> 0 - 1]
    ELSE [err |-> "none", count |-> Len(IndexOf(c, t))]

\* The arguments explored for the calls on a cursor.
BatchSizes == {0, 0 - 1}

FetchSizes == {NoSize, 0 - 1, 0, 2}

\* The predicates a cursor is constructed with: none, or gid == 1.
CursorPreds == {p \in Preds : p.col = "all" \/ p.val = 1}

NewBatchSizes == {0 - 1, 1}

\* A call on the cursor leaves the table alone. out, arg and count are
\* those of the last call only.
Fresh(c) == [c EXCEPT !.out = <<>>, !.arg = NoSize, !.count = 0 - 1]

CursorCall(op, c, e) ==
    /\ cursor' = c
    /\ err' = e
    /\ last' = Call(op)
    /\ UNCHANGED <<data, diff, index, held, txn, snap, gone, proxy, header>>

\* cursor = Cursor(getter=table.row, parent=table, mode=..., ...). last
\* records the arguments: the sorter in kinds, the mode name in expect.
OpenCursor ==
    \E name \in ModeNames, where \in CursorPreds, sorter \in Sorters,
       batchsize \in BatchSizes :
        /\ cursor.mode < 0
        /\ LET r == OpenResult(Cur, name, where, sorter, batchsize) IN
           /\ cursor' = r.c
           /\ err' = r.err
        /\ last' = [Call("open") EXCEPT
               !.kinds = {sorter},
               !.expect = name,
               !.first = IF name # <<>> THEN SetMode(name)
                         ELSE DefaultMode(sorter)]
        /\ UNCHANGED <<data, diff, index, held, txn, snap, gone, proxy, header>>

\* cursor.fetch(size), cursor.fetch()
Fetch ==
    \E arg \in FetchSizes :
        /\ cursor.mode >= 0
        /\ \E picks \in [1..(IF SizeOf(cursor, arg) > 0
                              THEN SizeOf(cursor, arg) ELSE 0)
                          -> RandomOutcomes(cursor, Cur)] :
               LET r == FetchResult(cursor, Cur, arg, picks) IN
               CursorCall("fetch",
                          [Fresh(r.c) EXCEPT !.out = r.out, !.arg = arg],
                          r.err)

\* cursor.next()
CursorNext ==
    /\ cursor.mode >= 0
    /\ \E pick \in RandomOutcomes(cursor, Cur) :
           LET r == NextResult(cursor, Cur, pick) IN
           CursorCall("next",
                      [Fresh(r.c) EXCEPT !.out = IF r.st = "row" THEN <<r.row>>
                                                 ELSE <<>>],
                      IF r.st = "row" THEN "none" ELSE r.st)

\* cursor.reset(); out keeps what the call before returned.
Reset ==
    /\ cursor.mode >= 0
    /\ CursorCall("reset", [Fresh(ResetResult(cursor)) EXCEPT !.out = cursor.out],
                  "none")

\* cursor.batchsize = n
SetBatchsize ==
    \E n \in NewBatchSizes :
        /\ cursor.mode >= 0
        /\ cursor.batchsize # n
        /\ CursorCall("batchsize", [Fresh(cursor) EXCEPT !.batchsize = n],
                      "none")

\* cursor.rowcount
Rowcount ==
    /\ cursor.mode >= 0
    /\ LET r == RowcountResult(cursor, Cur) IN
       CursorCall("rowcount", [Fresh(cursor) EXCEPT !.count = r.count], r.err)

\* The table is filled and changed first; the cursor is constructed on what
\* results and used while the table rests.
NextCursor ==
    \/ cursor.mode < 0 /\ Insert(RecRows, FALSE)
    \/ cursor.mode < 0 /\ Update(RecPreds, RecChanges, FALSE)
    \/ cursor.mode < 0 /\ Delete(CursorPreds, FALSE)
    \/ cursor.mode < 0 /\ Commit(FALSE)
    \/ cursor.mode < 0 /\ Rollback(FALSE)
    \/ OpenCursor
    \/ Fetch
    \/ CursorNext
    \/ Reset
    \/ SetBatchsize
    \/ Rowcount

\* A Cursor on a table.
SpecCursor == Init /\ [][NextCursor]_vars

(* ------------------------------------- a Cursor on a table that changes *)

\* Mutant: truncate leaves the lists as they are.
TableTruncateSkipped(t) == t

\* Table.truncate: three new empty lists; a Record the caller keeps leaves
\* the table.
TableTruncate(t) ==
    [t EXCEPT !.data = <<>>, !.diff = <<>>, !.index = <<>>,
              !.held = IF t.held.loc \in {"data", "diff"}
                       THEN [loc |-> "free", id |-> 0,
                             rec |-> Deref(t, HeldRef(t))]
                       ELSE t.held]

\* Table.truncate(). The ids of the rows it removes are recorded in gone.
Truncate(hist) ==
    /\ Apply(TableTruncate(Cur))
    /\ last' = Call("truncate")
    /\ txn' = Keep(hist, [EmptyTxn EXCEPT !.kinds = {"truncate"}], EmptyTxn)
    /\ gone' = Keep(hist, gone \cup RowIds, gone)
    /\ UNCHANGED <<snap, ext>>

\* The modes of the cursors that keep what they were constructed on:
\* 'forward-only indexed' (the default mode) and 'forward-only static'.
LiveModes == {<<"forward-only", "indexed">>, <<"forward-only", "static">>}

\* cursor = Cursor(getter=table.row, parent=table, ...), recording the index
\* and the result set of that moment.
OpenLive ==
    \E name \in LiveModes, where \in CursorPreds, sorter \in Sorters :
        /\ cursor.mode < 0
        /\ LET r == OpenResult(Cur, name, where, sorter, 0) IN
           /\ r.err = "none"
           /\ cursor' = [r.c EXCEPT !.born =
                  [index |-> index,
                   rows |-> [i \in 1..Len(r.c.buffer) |->
                                Fields(r.c.buffer[i])]]]
           /\ err' = r.err
        /\ last' = Call("open")
        /\ UNCHANGED <<data, diff, index, held, txn, snap, gone, proxy, header>>

\* cursor.fetch(-1); the rows it returns are not kept.
FetchAll ==
    /\ cursor.mode >= 0
    /\ LET r == FetchResult(cursor, Cur, 0 - 1, <<>>) IN
       CursorCall("fetch", [Fresh(r.c) EXCEPT !.arg = 0 - 1], r.err)

\* The table is filled, a cursor is constructed, and the table is changed
\* while the cursor is in use.
NextLive ==
    \/ Insert(RecRows, FALSE)
    \/ Commit(FALSE)
    \/ cursor.mode >= 0 /\ Update(RecPreds, RecChanges, FALSE)
    \/ cursor.mode >= 0 /\ Delete(CursorPreds, FALSE)
    \/ cursor.mode >= 0 /\ Rollback(FALSE)
    \/ cursor.mode >= 0 /\ Truncate(FALSE)
    \/ OpenLive
    \/ FetchAll
    \/ Reset

SpecLive == Init /\ [][NextLive]_vars

(* --------------------------------------------------- pack, truncate, drop *)

\* list(filter(None.__ne__, self._data)) followed by the loop that sets
\* self._data[rowid]._id = rowid: the slots of rows that are not None, in
\* order, each record with the id of its new position.
RECURSIVE Packed(_)
Packed(rows) ==
    IF rows = <<>> THEN <<>>
    ELSE LET front == Packed(SubSeq(rows, 1, Len(rows) - 1))
             rec == rows[Len(rows)]
         IN  IF rec = None THEN front
             ELSE Append(front, [rec EXCEPT !.id = Len(front)])

\* Mutant: pack leaves the emptied slots in the list.
PackRowsKeepsTombstones(rows) == rows

\* The new value of self._data in Table.pack
PackRows(rows) == Packed(rows)

\* Table.pack after its commit: data without its empty slots, the index
\* 0..len(data)-1, the ids renumbered and a diff of empty slots. A Record
\* the caller holds stays the same object and moves with its slot.
Compact(t1) ==
    LET rows == PackRows(t1.data)
        h == IF t1.held.loc = "data"
             THEN [t1.held EXCEPT !.id = Len(Packed(SubSeq(t1.data, 1, @)))]
             ELSE t1.held
    IN  [t1 EXCEPT !.data = rows,
                   !.index = [i \in 1..Len(rows) |-> i - 1],
                   !.diff = [i \in 1..Len(rows) |-> None],
                   !.held = h]

\* Table.pack on a plain Table: self.commit() is Table.commit; an exception
\* of the commit ends the call.
TablePack(t) ==
    LET t1 == TableCommit(t) IN
    IF t1.err # "none" THEN t1 ELSE Compact(t1)

\* The ids of the slots of data that are empty.
Emptied(rows) == {rowid \in 0..(Len(rows) - 1) : rows[rowid + 1] = None}

\* Table.pack(). The ids start again, so the record of removed ids does too;
\* the call is recorded with the slots that its commit left empty.
Pack(hist) ==
    /\ LET t == TablePack(Cur) IN
       /\ Apply(t)
       /\ snap' = Keep(hist, Snapshot(t), snap)
       /\ txn' = BeginTxn(hist, t)
    /\ last' = [Call("pack") EXCEPT !.dels = Emptied(TableCommit(Cur).data)]
    /\ gone' = {}
    /\ UNCHANGED ext

\* del self.<attribute>: the table no longer has the attribute.
DeleteAttr(h, key) == [h EXCEPT ![key] = FALSE]

\* Table._delete_header, Table._delete_metadata and Table._delete_name as
\* Table.drop calls them.
DeleteHeader(h) ==
    DeleteAttr(DeleteAttr(DeleteAttr(h, "record"), "metadata"), "name")

\* Table.drop(): truncate, then the header, the metadata and the name go.
Drop(hist) ==
    /\ Apply(TableTruncate(TableTruncate(Cur)))
    /\ header' = DeleteHeader(header)
    /\ last' = Call("drop")
    /\ txn' = Keep(hist, [EmptyTxn EXCEPT !.kinds = {"drop"}], EmptyTxn)
    /\ gone' = Keep(hist, gone \cup RowIds, gone)
    /\ UNCHANGED <<snap, proxy, cursor>>

\* The rows inserted here: tuples with a uid, so that rows can be told apart.
AdminRows == {r \in RowLikes : r.kind = "tuple" /\ r.uid \in Val}

\* The verbs of a table together with pack, truncate and drop. A dropped
\* table has no record class: what is left to call on it are the verbs that
\* only walk data and diff.
NextAdmin ==
    \/ (header.record /\ Insert(AdminRows, FALSE))
    \/ (header.record /\ Update(RecPreds, RecChanges, FALSE))
    \/ (header.record /\ Delete(Preds, FALSE))
    \/ Commit(FALSE)
    \/ Rollback(FALSE)
    \/ (header.record /\ Pack(FALSE))
    \/ (header.record /\ Truncate(TRUE))
    \/ (header.record /\ Drop(TRUE))

SpecAdmin == Init /\ [][NextAdmin]_vars

(* ------------------------------------------------------- pack on a Proxy *)

\* Mutant: pack calls Table.commit, whatever the class of the table.
ProxyPackResultPlain(px, t, ok) ==
    [t |-> TablePack(t), px |-> [px EXCEPT !.saw = NotPushed]]

\* Table.pack on a Proxy: self.commit() is Proxy.commit; an exception it
\* raises ends the call before data is touched again.
ProxyPackResult(px, t, ok) ==
    LET r == ProxyCommitResult(px, t, ok) IN
    IF r.t.err # "none" THEN r ELSE [t |-> Compact(r.t), px |-> r.px]

\* Proxy.pack()
ProxyPack ==
    \E ok \in BOOLEAN :
        /\ LET r == ProxyPackResult(proxy, Cur, ok) IN
           /\ Apply(r.t)
           /\ proxy' = r.px
        /\ last' = Call("proxy_pack")
        /\ UNCHANGED <<txn, snap, gone, cursor, header>>

NextProxyPack ==
    \/ Insert(RecRows, FALSE)
    \/ Update(Preds, RecChanges, FALSE)
    \/ Delete(Preds, FALSE)
    \/ Rollback(FALSE)
    \/ ProxyCommit
    \/ ProxyPack

\* A Proxy with pack().
SpecProxyPack == InitProxy /\ [][NextProxyPack]_vars

(* ----------------------------------------------------------- properties *)

\* C1: after rollback() select() returns exactly the rows, values and order,
\* that it returned right after the last commit (or after creation).
C1_RollbackRestoresCommittedView ==
    last.op = "rollback" => Select(Cur, NoWhere) = snap.rows

\* C2: after a transaction of insert calls only and commit, row(id) of every
\* inserted id has the field values that were inserted (defaults for omitted
\* columns), and data[id] holds that record.
C2_RoundTrip ==
    (last.op = "commit" /\ last.kinds \subseteq {"insert"}) =>
        \A id \in last.ids :
            /\ Row(Cur, id) # None
            /\ Fields(Row(Cur, id)) = last.expect[id + 1]
            /\ data[id + 1] = Row(Cur, id)

C2_Witness ==
    /\ last.op = "commit"
    /\ last.kinds = {"insert"}
    /\ Cardinality(last.ids) >= 2
    /\ \E id \in last.ids : last.expect[id + 1][2] # DefaultGid

\* C3: right after insert the new id is in the index and select() returns the
\* row; after rollback the id is not in the index, select() does not return
\* the row, and row(id) is None.
C3_StagedInsertVisibility ==
    /\ last.op = "insert" =>
           \A id \in last.ids :
               /\ Contains(index, id)
               /\ Contains(SelectIds(Cur, NoWhere), id)
    /\ last.op = "rollback" =>
           \A id \in last.ids :
               /\ ~Contains(index, id)
               /\ ~Contains(SelectIds(Cur, NoWhere), id)
               /\ Row(Cur, id) = None

C3_Witness == last.op = "rollback" /\ last.ids # {} /\ index # <<>>

\* C4: a delete(where) step takes every row that matched out of the index and
\* out of select(), and leaves every slot of data with the same record and the
\* same field values.
C4_StagedDeleteVisible ==
    [][last'.op = "delete" =>
          /\ \A id \in last'.ids :
                 /\ ~Contains(index', id)
                 /\ ~Contains(SelectIds(Cur', NoWhere), id)
          /\ Len(data') = Len(data)
          /\ \A i \in 1..Len(data) :
                 /\ data'[i].id = data[i].id
                 /\ Fields(data'[i]) = Fields(data[i])]_vars

C4_Witness ==
    /\ last.op = "delete"
    /\ \E id \in last.ids : data[id + 1] # None
    /\ \E id \in RowIds : id \notin last.ids /\ Contains(index, id)

\* C5: committed rows deleted in a transaction are in the index and returned
\* by select() again after rollback().
C5_RollbackRestoresDeleted ==
    last.op = "rollback" =>
        \A id \in last.dels \ last.ids :
            /\ Contains(index, id)
            /\ Contains(SelectIds(Cur, NoWhere), id)

\* C6: once a delete has been committed, data[id] is None, the id is not in
\* the index and row(id) is None, after that commit and after every later
\* insert, update, delete, commit and rollback.
C6_CommittedDeleteIsPermanent ==
    \A id \in gone :
        /\ data[id + 1] = None
        /\ ~Contains(index, id)
        /\ Row(Cur, id) = None

C6_Witness ==
    /\ gone # {}
    /\ last.op = "insert"
    /\ last.ids # {}

C8_RollbackUndoesUpdate ==
    (last.op = "rollback" /\ last.kinds = {"update"}) =>
        /\ \A i \in 1..Len(diff) : diff[i] = None
        /\ \A i \in 1..Len(data) :
               data[i] # None =>
                   /\ data[i].state = 0
                   /\ i <= Len(snap.vals)
                   /\ Fields(Row(Cur, i - 1)) = snap.vals[i]

C8_Witness ==
    /\ last.op = "rollback"
    /\ last.kinds = {"update"}
    /\ last.upds # {}
    /\ \E id \in RowIds : id \notin last.upds /\ data[id + 1] # None

\* The visible rows for which where(row) is true.
Matching(t, where) ==
    {id \in 0..(Len(t.data) - 1) :
        Contains(t.index, id) /\ Matches(where, Row(t, id))}

Carries(rec, changes) ==
    /\ changes.uid # Omitted => rec.uid = changes.uid
    /\ changes.gid # Omitted => rec.gid = changes.gid

\* C9: an update(where, **changes) step leaves row(id) of every visible row
\* that matched with the new values of the changed columns, whatever the
\* row's state was.
C9_UpdateAppliesChanges ==
    [][\A where \in Preds, changes \in ChangeSet :
          (/\ last'.op = "update"
           /\ data' = TableUpdate(Cur, where, changes).data
           /\ diff' = TableUpdate(Cur, where, changes).diff
           /\ index' = TableUpdate(Cur, where, changes).index)
          => \A id \in Matching(Cur, where) :
                 Carries(Row(Cur', id), changes)]_vars

\* C10: a second delete on the same Record, or a second update with the same
\* changes, directly after the first leaves data, diff, index and the
\* Record's state flags as the first call left them and invokes no hook.
C10_RecordOpsIdempotent ==
    [][(last'.op \in {"rec_delete", "rec_update"} /\ last'.first >= 0) =>
          /\ data' = data
          /\ diff' = diff
          /\ index' = index
          /\ held' = held
          /\ last'.hooks = 0]_vars

C10_Witness ==
    /\ last.op = "rec_update"
    /\ last.first = 1
    /\ last.changes.gid # Omitted
    /\ err = "none"

\* C11: when commit() returns, diff is all-empty, every stored row has state
\* flags zero, every row that was CREATE- or UPDATE-flagged and not
\* DELETE-flagged is stored in data with its staged values, and every
\* DELETE-flagged row is a tombstone outside the index.
C11_CommitAppliesAll ==
    [][(last'.op = "commit" /\ err' = "none") =>
          /\ \A i \in 1..Len(diff') : diff'[i] = None
          /\ \A i \in 1..Len(data') :
                 data'[i] # None => data'[i].state = 0
          /\ \A id \in RowIds :
                 LET row == Row(Cur, id) IN
                 row # None =>
                     IF HasFlag(row.state, RECORD_STATE_FLAG_DELETE)
                     THEN /\ data'[id + 1] = None
                          /\ ~Contains(index', id)
                     ELSE IF row.state # 0
                     THEN /\ diff[id + 1] # None
                          /\ data'[id + 1] = [diff[id + 1] EXCEPT !.state = 0]
                     ELSE data'[id + 1] = data[id + 1]]_vars

C11_Witness ==
    /\ last.op = "commit"
    /\ err = "none"
    /\ last.dels # {}
    /\ (last.upds \cup last.ids) \ last.dels # {}

\* C12: Proxy.commit() on a proxy with the READONLY flag raises ProxyError,
\* does not call push(), and leaves data, diff, index, the state flags and
\* row(id) of every id as they were.
C12_ReadonlyCommitRejected ==
    [][(last'.op = "proxy_commit"
        /\ HasFlag(proxy.mode, PROXY_MODE_FLAG_READONLY)) =>
          /\ err' = "ProxyError"
          /\ ~proxy'.saw.called
          /\ proxy'.remote = proxy.remote
          /\ data' = data
          /\ diff' = diff
          /\ index' = index
          /\ \A id \in RowIds : Row(Cur', id) = Row(Cur, id)]_vars

C12_Witness ==
    /\ last.op = "proxy_commit"
    /\ HasFlag(proxy.mode, PROXY_MODE_FLAG_READONLY)
    /\ err = "ProxyError"
    /\ Dirty(Cur)
    /\ index # <<>>

\* C13: Proxy.commit() on an INCREMENTAL proxy calls push() on the table as
\* it is before the local commit (staged changes still in diff and in the
\* state flags); if push() fails, data, diff, index and the state flags are
\* as before the call.
C13_IncrementalPushesFirst ==
    [][(last'.op = "proxy_commit"
        /\ HasFlag(proxy.mode, PROXY_MODE_FLAG_INCREMENTAL)
        /\ ~HasFlag(proxy.mode, PROXY_MODE_FLAG_READONLY)) =>
          /\ proxy'.saw.called
          /\ proxy'.saw.dirty = Dirty(Cur)
          /\ proxy'.saw.rows = Select(Cur, NoWhere)
          /\ err' = "PushError" =>
                 /\ data' = data
                 /\ diff' = diff
                 /\ index' = index]_vars

C13_Witness ==
    /\ last.op = "proxy_commit"
    /\ HasFlag(proxy.mode, PROXY_MODE_FLAG_INCREMENTAL)
    /\ ~HasFlag(proxy.mode, PROXY_MODE_FLAG_READONLY)
    /\ err = "PushError"
    /\ proxy.saw.dirty
    /\ Dirty(Cur)

\* C14: Proxy.commit() on a proxy without INCREMENTAL (and without READONLY)
\* commits locally and then calls push(), which sees an all-empty diff and
\* zero state flags; if push() fails the source is unchanged, the local
\* commit stays and a rollback changes nothing.
C14_FullPushesAfterLocalCommit ==
    [][(last'.op = "proxy_commit"
        /\ ~HasFlag(proxy.mode, PROXY_MODE_FLAG_INCREMENTAL)
        /\ ~HasFlag(proxy.mode, PROXY_MODE_FLAG_READONLY)
        /\ err' \in {"none", "PushError"}) =>
          /\ proxy'.saw.called
          /\ ~proxy'.saw.dirty
          /\ proxy'.saw.rows = Select(Cur', NoWhere)
          /\ \A i \in 1..Len(diff') : diff'[i] = None
          /\ \A i \in 1..Len(data') : data'[i] # None => data'[i].state = 0
          /\ \A id \in RowIds :
                 (Row(Cur, id) # None
                  /\ ~HasFlag(Row(Cur, id).state, RECORD_STATE_FLAG_DELETE)) =>
                     Fields(data'[id + 1]) = Fields(Row(Cur, id))
          /\ err' = "PushError" =>
                 /\ proxy'.remote = proxy.remote
                 /\ TableRollback(Cur').data = data'
                 /\ TableRollback(Cur').index = index']_vars

C14_Witness ==
    /\ last.op = "proxy_commit"
    /\ ~HasFlag(proxy.mode, PROXY_MODE_FLAG_INCREMENTAL)
    /\ ~HasFlag(proxy.mode, PROXY_MODE_FLAG_READONLY)
    /\ err = "PushError"
    /\ proxy.saw.rows # <<>>
    /\ proxy.saw.rows # proxy.remote

(* --------------------------------------------------- properties of Cursor *)

RANDOM(c) == HasFlag(c.mode, CURSOR_MODE_FLAG_RANDOM)

BUFFERED(c) == HasFlag(c.mode, CURSOR_MODE_FLAG_BUFFERED)

\* The row of id satisfies the predicate of the cursor.
Satisfies(c, t, id) ==
    ~HasFilter(c) \/ (Row(t, id) # None /\ Matches(c.where, Row(t, id)))

\* The rows of the ids in ids that satisfy the predicate, in that order.
RowsOf(c, t, ids) ==
    LET sel == SelectSeq(ids, LAMBDA id : Satisfies(c, t, id)) IN
    [i \in 1..Len(sel) |-> Row(t, sel[i])]

\* The result set of a cursor that is not RANDOM.
ResultSet(c, t) ==
    IF BUFFERED(c) THEN c.buffer ELSE RowsOf(c, t, IndexOf(c, t))

\* The part of the result set behind the position of the cursor.
Remaining(c, t) ==
    IF c.pos < 0 THEN <<>>
    ELSE IF BUFFERED(c) THEN SubSeq(c.buffer, c.pos + 1, Len(c.buffer))
    ELSE RowsOf(c, t, SubSeq(IndexOf(c, t), c.pos + 1, Len(IndexOf(c, t))))

\* C15: a Cursor constructed with a sorter and a mode without BUFFERED, or
\* with a sorter and RANDOM, raises CursorModeError and no cursor exists;
\* fetch with a size <= 0 on a RANDOM cursor raises CursorModeError and
\* returns no row.
C15_CursorModeErrors ==
    /\ (last.op = "open" /\ "bygid" \in last.kinds
        /\ (~HasFlag(last.first, CURSOR_MODE_FLAG_BUFFERED)
            \/ HasFlag(last.first, CURSOR_MODE_FLAG_RANDOM))) =>
           (err = "CursorModeError" /\ cursor = NoCursor)
    /\ (last.op = "fetch" /\ RANDOM(cursor)
        /\ (IF cursor.arg = NoSize THEN cursor.batchsize
            ELSE cursor.arg) <= 0) =>
           (err = "CursorModeError" /\ cursor.out = <<>>)

C15_Witness ==
    /\ last.op = "open"
    /\ "bygid" \in last.kinds
    /\ HasFlag(last.first, CURSOR_MODE_FLAG_BUFFERED)
    /\ HasFlag(last.first, CURSOR_MODE_FLAG_RANDOM)
    /\ Len(index) = 2
    /\ err = "CursorModeError"

\* C16: fetch on a cursor that is not RANDOM returns the next
\* min(size, remaining) rows of the result set in order for size > 0 and all
\* remaining rows for size <= 0, size being the current batchsize when none
\* is given; what remains afterwards is the rest, so no position is returned
\* twice and an exhausted cursor returns the empty list.
C16_FetchAdvances ==
    [][(last'.op = "fetch" /\ ~RANDOM(cursor) /\ err' = "none") =>
          LET rem == Remaining(cursor, Cur)
              size == IF cursor'.arg = NoSize THEN cursor.batchsize
                      ELSE cursor'.arg
              n == IF 0 < size /\ size < Len(rem) THEN size ELSE Len(rem)
          IN  /\ cursor'.out = SubSeq(rem, 1, n)
              /\ Remaining(cursor', Cur') = SubSeq(rem, n + 1, Len(rem))]_vars

C16_Witness ==
    /\ last.op = "fetch"
    /\ ~RANDOM(cursor)
    /\ err = "none"
    /\ cursor.arg = NoSize
    /\ cursor.batchsize = 1
    /\ Len(cursor.out) = 1
    /\ cursor.pos = Len(ResultSet(cursor, Cur))
    /\ Len(ResultSet(cursor, Cur)) = 2

\* C17: after reset() on a cursor that is not RANDOM, fetch(-1) returns the
\* complete result set, which has as many rows as the table when there is
\* no predicate; reset() raises nothing, on a RANDOM cursor as well.
C17_ResetRewinds ==
    last.op = "reset" =>
        /\ err = "none"
        /\ ~RANDOM(cursor) =>
               /\ FetchResult(cursor, Cur, 0 - 1, <<>>).err = "none"
               /\ FetchResult(cursor, Cur, 0 - 1, <<>>).out
                      = ResultSet(cursor, Cur)
               /\ ~HasFilter(cursor) =>
                      Len(FetchResult(cursor, Cur, 0 - 1, <<>>).out)
                          = Len(index)

C17_Witness ==
    /\ last.op = "reset"
    /\ ~RANDOM(cursor)
    /\ cursor.out # <<>>
    /\ Len(ResultSet(cursor, Cur)) = 2

\* C18: when a visible row satisfies the predicate, fetch(n) with n > 0 on a
\* RANDOM cursor returns exactly n rows, each a present record that
\* satisfies the predicate, and raises nothing.
C18_RandomNeverExhausts ==
    (last.op = "fetch" /\ RANDOM(cursor) /\ SizeOf(cursor, cursor.arg) > 0
     /\ \E i \in 1..Len(index) : /\ Row(Cur, index[i]) # None
                                 /\ Matches(cursor.where, Row(Cur, index[i]))) =>
        /\ err = "none"
        /\ Len(cursor.out) = SizeOf(cursor, cursor.arg)
        /\ \A k \in 1..Len(cursor.out) :
               /\ cursor.out[k] # None
               /\ Matches(cursor.where, cursor.out[k])

\* C19: a row returned by next() on a RANDOM cursor without buffer is the
\* row of an id in the index of the cursor, and the row of every id in the
\* index can be returned.
C19_RandomDrawsFromIndex ==
    (cursor.mode >= 0 /\ RANDOM(cursor) /\ ~BUFFERED(cursor)) =>
        /\ (last.op = "next" /\ err = "none") =>
               /\ cursor.out[1] # None
               /\ Contains(IndexOf(cursor, Cur), cursor.out[1].id)
        /\ \A i \in 1..Len(IndexOf(cursor, Cur)) :
               Satisfies(cursor, Cur, IndexOf(cursor, Cur)[i]) =>
                   [st |-> "row", row |-> Row(Cur, IndexOf(cursor, Cur)[i])]
                       \in RandomOutcomes(cursor, Cur)

\* C20: rowcount raises CursorModeError on a RANDOM cursor and on a cursor
\* without buffer that has a predicate; otherwise it is the number of rows
\* of the buffered result set, or the length of the index of a cursor
\* without buffer.
C20_RowcountValidity ==
    last.op = "rowcount" =>
        IF RANDOM(cursor) \/ (~BUFFERED(cursor) /\ HasFilter(cursor))
        THEN err = "CursorModeError"
        ELSE /\ err = "none"
             /\ BUFFERED(cursor) =>
                    /\ cursor.count = Len(cursor.buffer)
                    /\ cursor.count = Len(RowsOf(cursor, Cur, index))
             /\ ~BUFFERED(cursor) =>
                    cursor.count = Len(IndexOf(cursor, Cur))

C20_Witness ==
    /\ last.op = "rowcount"
    /\ BUFFERED(cursor)
    /\ ~RANDOM(cursor)
    /\ HasFilter(cursor)
    /\ err = "none"
    /\ cursor.count = 1
    /\ Len(index) = 2

(* ------------------------------------------ properties of the later verbs *)

\* The names of the modes that are not RANDOM; <<>> is the default mode.
SeqModes == {name \in ModeNames : ~HasToken(name, "random")}

\* What a cursor of the mode with the predicate returns when it is
\* constructed on the table and all its rows are fetched.
Traverse(t, name, where) ==
    LET r == OpenResult(t, name, where, "none", 0) IN
    IF r.err # "none" THEN [err |-> r.err, out |-> <<>>]
    ELSE [err |-> FetchResult(r.c, t, 0 - 1, <<>>).err,
          out |-> FetchResult(r.c, t, 0 - 1, <<>>).out]

\* The rows of the ids that satisfy the predicate, in the order of ids.
RowsIn(t, ids, where) ==
    LET sel == SelectSeq(ids, LAMBDA id : /\ Row(t, id) # None
                                          /\ Matches(where, Row(t, id)))
    IN  [i \in 1..Len(sel) |-> Row(t, sel[i])]

\* The elements of a set of ids in ascending order, the order in which
\* Table._get_new_rowid hands them out.
RECURSIVE Ascending(_)
Ascending(S) ==
    IF S = {} THEN <<>>
    ELSE LET m == CHOOSE x \in S : \A y \in S : x <= y
         IN  <<m>> \o Ascending(S \ {m})

Entries(seq) == {seq[i] : i \in 1..Len(seq)}

\* A traversal and select() return rows, the rows of the ids in the given
\* order that satisfy the predicate.
YieldsInOrder(t, ids) ==
    \A where \in Preds :
        /\ \A name \in SeqModes :
               /\ Traverse(t, name, where).err = "none"
               /\ Traverse(t, name, where).out = RowsIn(t, ids, where)
        /\ Select(t, where) = [i \in 1..Len(RowsIn(t, ids, where)) |->
                                  Fields(RowsIn(t, ids, where)[i])]

\* The position of an id in a list that holds it once.
PosIn(seq, x) == CHOOSE i \in 1..Len(seq) : seq[i] = x

INDEXED(c) == HasFlag(c.mode, CURSOR_MODE_FLAG_INDEXED)

FieldsOf(rows) == [i \in 1..Len(rows) |-> Fields(rows[i])]

\* C22: the rows a BUFFERED cursor yields, and their field values, are those
\* of its construction: whatever insert, update, delete, commit, rollback
\* or truncate did to the table since, fetch(-1) returns the rest of that
\* sequence, and all of it after reset().
C22_BufferedInsulated ==
    (cursor.mode >= 0 /\ BUFFERED(cursor)) =>
        LET now == FetchResult(cursor, Cur, 0 - 1, <<>>)
            again == FetchResult(ResetResult(cursor), Cur, 0 - 1, <<>>)
        IN  /\ now.err = "none"
            /\ again.err = "none"
            /\ FieldsOf(again.out) = cursor.born.rows
            /\ FieldsOf(now.out) =
                   IF cursor.pos < 0 THEN <<>>
                   ELSE SubSeq(cursor.born.rows, cursor.pos + 1,
                               Len(cursor.born.rows))

C22_Witness ==
    /\ last.op = "fetch"
    /\ err = "none"
    /\ BUFFERED(cursor)
    /\ Len(cursor.born.rows) = 2
    /\ data = <<>>

\* C23: an INDEXED cursor without buffer traverses the ids that were in the
\* index of the table when it was constructed, whatever was inserted or
\* deleted since, also after reset(), and returns for each the row the
\* getter returns now, so that an update staged since is seen.
C23_IndexedSnapshot ==
    (cursor.mode >= 0 /\ INDEXED(cursor) /\ ~BUFFERED(cursor)) =>
        LET again == FetchResult(ResetResult(cursor), Cur, 0 - 1, <<>>)
            ids == cursor.born.index
            here == \A i \in 1..Len(ids) :
                        ids[i] < Len(diff) /\ Row(Cur, ids[i]) # None
        IN  /\ here => again.err = "none"
            /\ again.err = "none" =>
                   again.out = IF HasFilter(cursor)
                               THEN RowsIn(Cur, ids, cursor.where)
                               ELSE [i \in 1..Len(ids) |-> Row(Cur, ids[i])]

C23_Witness ==
    /\ last.op = "fetch"
    /\ err = "none"
    /\ INDEXED(cursor)
    /\ ~BUFFERED(cursor)
    /\ cursor.born.index = <<0>>
    /\ index = <<1>>
    /\ Row(Cur, 0) # None
    /\ Row(Cur, 0).gid = 1

\* The records that outlive a commit, in the order of their slots: what
\* row() returns for the id, unless it is absent or DELETE-flagged.
RECURSIVE Survivors(_, _)
Survivors(t, rowid) ==
    IF rowid >= Len(t.data) THEN <<>>
    ELSE LET row == Row(t, rowid) IN
         IF row = None \/ HasFlag(row.state, RECORD_STATE_FLAG_DELETE)
         THEN Survivors(t, rowid + 1)
         ELSE <<row>> \o Survivors(t, rowid + 1)

\* C24: when pack() returns, the pending changes are committed and the table
\* is dense: data has no empty slot, every record carries the id of its
\* position with no state flag left, the index is 0..len(data)-1, diff is
\* all-empty and as long as data, and the rows that survived are the ones
\* pending before the call, in their former relative order.
C24_PackCompacts ==
    [][(last'.op = "pack" /\ err' = "none") =>
        /\ Len(diff') = Len(data')
        /\ \A i \in 1..Len(diff') : diff'[i] = None
        /\ \A i \in 1..Len(data') :
               /\ data'[i] # None
               /\ data'[i].id = i - 1
               /\ data'[i].state = 0
        /\ index' = [i \in 1..Len(data') |-> i - 1]
        /\ FieldsOf(data') = FieldsOf(Survivors(Cur, 0))]_vars

\* pack() has removed the empty slot 0 and the row behind it, which an
\* update had staged, now has id 0 and the updated value.
C24_Witness ==
    /\ last.op = "pack"
    /\ err = "none"
    /\ last.dels = {0}
    /\ Len(data) = 1
    /\ data[1].id = 0
    /\ data[1].gid = 1

C26_InsertDeleteLeavesNoTrace ==
    [][/\ (last'.op = "commit" /\ err' = "none") =>
            /\ \A rowid \in txn.created \cap txn.dels :
                   /\ data'[rowid + 1] = None
                   /\ ~Contains(index', rowid)
                   /\ Row(Cur', rowid) = None
            /\ (txn.dels = txn.created /\ txn.upds \subseteq txn.created) =>
                   Select(Cur', NoWhere) = txn.base
       /\ last'.op = "insert" =>
            \A rowid \in Len(data)..(Len(data') - 1) :
                /\ rowid \notin gone
                /\ Row(Cur', rowid).id = rowid]_vars

\* After the commit of row 0, row 1 was inserted and deleted, and the
\* commit has returned: slot 1 is empty and select() returns row 0 alone.
C26_Witness ==
    /\ last.op = "commit"
    /\ err = "none"
    /\ last.ids = {1}
    /\ last.dels = {1}
    /\ Len(data) = 2
    /\ data[1] # None
    /\ data[2] = None
    /\ index = <<0>>

\* How often the id is in the index.
Occurrences(seq, x) == Cardinality({i \in 1..Len(seq) : seq[i] = x})

\* C27: restore is the idempotent inverse of delete. A restore on a
\* DELETE-flagged record leaves the flag clear and the id in the index
\* exactly once, as its last element; a restore on a record without the
\* flag changes nothing.
C27_RestoreInvertsDelete ==
    [][last'.op = "row_restore" =>
        \A rowid \in last'.ids :
            IF HasFlag(Row(Cur, rowid).state, RECORD_STATE_FLAG_DELETE)
            THEN /\ ~HasFlag(Row(Cur', rowid).state, RECORD_STATE_FLAG_DELETE)
                 /\ Occurrences(index', rowid) = 1
                 /\ index'[Len(index')] = rowid
            ELSE /\ data' = data /\ diff' = diff /\ index' = index]_vars

\* C28: revoke is the idempotent inverse of update. After a revoke on the
\* staged update of a committed row the diff slot is empty, row(id) is the
\* committed record with its field values and without the UPDATE flag, a
\* commit that follows returns and leaves data[id] with the committed
\* values, and an update that follows changes the row.
C28_RevokeInvertsUpdate ==
    [][last'.op = "row_revoke" =>
        \A rowid \in last'.ids :
            (/\ data[rowid + 1] # None
             /\ diff[rowid + 1] # None
             /\ HasFlag(diff[rowid + 1].state, RECORD_STATE_FLAG_UPDATE)) =>
                /\ diff'[rowid + 1] = None
                /\ Fields(Row(Cur', rowid)) = Fields(data[rowid + 1])
                /\ ~HasFlag(Row(Cur', rowid).state, RECORD_STATE_FLAG_UPDATE)
                /\ TableCommit(Cur').err = "none"
                /\ Fields(TableCommit(Cur').data[rowid + 1])
                       = Fields(data[rowid + 1])
                /\ \A changes \in RecChanges :
                       Row(RecordUpdate(Cur', RowRef(Cur', rowid), changes),
                           rowid).gid = changes.gid]_vars

\* C29: a state change on a Record never raises, whenever the caller got the
\* reference: a delete or an update with valid values on a Record obtained
\* before later updates, deletes, commits or rollbacks returns normally.
C29_RecordCallsNeverRaise ==
    last.op \in {"rec_delete", "rec_update"} => err = "none"

\* The ids of the records an insert has staged: the slots beyond the former
\* end of the table.
NewIds == {diff'[i].id : i \in (Len(data) + 1)..Len(diff')}

\* C30 as stated: over insert, update, delete, commit, rollback and truncate
\* no inserted row is given an id that a row has or had since the last
\* pack().
C30_IdsNeverReused ==
    [][last'.op = "insert" => NewIds \cap (RowIds \cup gone) = {}]_vars

\* C30: row ids are stable and not reused as long as neither pack() nor
\* truncate() is called. A step of insert, update, delete, commit or
\* rollback never shortens the table, leaves every record with the id of
\* its slot, and an insert gives ids that no slot has or had since the
\* table was last emptied or packed; truncate() empties the table, and the
\* numbering starts again at 0.
C30_IdsStableWithoutTruncate ==
    [][/\ last'.op \notin {"pack", "truncate", "drop"} =>
            /\ Len(data') >= Len(data)
            /\ \A i \in 1..Len(data') :
                   /\ data'[i] # None => data'[i].id = i - 1
                   /\ diff'[i] # None => diff'[i].id = i - 1
            /\ last'.op = "insert" => NewIds \cap RowIds = {}
       /\ last'.op \in {"truncate", "drop"} => GetNewRowid(Cur') = 0]_vars

\* The row of slot 0 is gone, by a rollback or a committed delete, and the
\* row inserted after it has id 1.
C30_Witness ==
    /\ last.op = "insert"
    /\ err = "none"
    /\ gone = {}
    /\ Len(data) = 2
    /\ data[1] = None /\ diff[1] = None
    /\ diff[2] # None /\ diff[2].id = 1

\* C31: a rejected insert changes nothing. When insert is called with a
\* single row whose value has the wrong type, or that lacks a value for a
\* column without default, the call raises and data, diff and index are as
\* they were before the call.
C31_RejectedInsertChangesNothing ==
    [][(last'.op = "insert" /\ last'.kinds = {} /\ err' # "none") =>
        /\ data' = data
        /\ diff' = diff
        /\ index' = index]_vars

\* A single row with an ill-typed value was rejected by a table that holds
\* a staged row.
C31_Witness ==
    /\ last.op = "insert"
    /\ last.kinds = {}
    /\ err = "InvalidTypeError"
    /\ Len(data) = 1
    /\ diff[1] # None
    /\ index = <<0>>

\* C32: a mode name without a word that Cursor._set_mode looks for is
\* treated as no mode at all. The constructor returns, and the cursor has
\* the default mode flags of its arguments: INDEXED without a sorter,
\* BUFFERED with one.
C32_UnknownModeIsDefault ==
    (/\ last.op = "open"
     /\ last.expect # <<>>
     /\ \A token \in {"random", "scrollable", "static", "indexed"} :
            ~HasToken(last.expect, token)) =>
        /\ err = "none"
        /\ \A sorter \in last.kinds : cursor.mode = DefaultMode(sorter)

\* C33: updates are staged in diff, not written in place. When update()
\* returns, no slot of data has other field values than before; every row an
\* update of the open transaction matched has a record in diff with the id
\* of the row and the state flags the row had, together with UPDATE; and
\* row(id) and select() return that record.
C33_UpdateStagesInOverlay ==
    [][(last'.op = "update" /\ err' = "none") =>
        /\ Len(data') = Len(data)
        /\ \A i \in 1..Len(data) :
               /\ Fields(data'[i]) = Fields(data[i])
               /\ (data'[i] = None) = (data[i] = None)
        /\ \A rowid \in txn'.upds :
               /\ diff'[rowid + 1] # None
               /\ diff'[rowid + 1].id = rowid
               /\ diff'[rowid + 1].state
                      = SetFlag(Row(Cur, rowid).state, RECORD_STATE_FLAG_UPDATE)
               /\ Row(Cur', rowid) = diff'[rowid + 1]
               /\ \A i \in 1..Len(index') :
                      index'[i] = rowid =>
                          Select(Cur', NoWhere)[i] = Fields(diff'[rowid + 1])]_vars

\* update(gid=1) has staged a record for the committed row 0: data[0] has
\* gid 0 and diff[0] has gid 1 and the UPDATE flag.
C33_Witness ==
    /\ last.op = "update"
    /\ err = "none"
    /\ txn.upds = {0}
    /\ data[1] # None /\ data[1].gid = 0
    /\ diff[1] # None /\ diff[1].gid = 1
    /\ diff[1].state = RECORD_STATE_FLAG_UPDATE
    /\ Select(Cur, NoWhere) = <<<<data[1].uid, 1>>>>

\* C34: diff is parallel to data. After every call of insert, update,
\* delete, commit, rollback, truncate, pack and drop, diff is as long as
\* data, and a slot of diff holds a record only for an id with an insert or
\* an update that is not committed: the record has the CREATE or the UPDATE
\* flag.
C34_DiffParallelToData ==
    /\ Len(diff) = Len(data)
    /\ \A i \in 1..Len(diff) :
           diff[i] # None =>
               \/ HasFlag(diff[i].state, RECORD_STATE_FLAG_CREATE)
               \/ HasFlag(diff[i].state, RECORD_STATE_FLAG_UPDATE)

\* Row 0 is committed and has a staged update, row 1 is a staged insert.
C34_Witness ==
    /\ Len(data) = 2
    /\ data[1] # None /\ data[2] = None
    /\ diff[1] # None /\ diff[1].state = RECORD_STATE_FLAG_UPDATE
    /\ diff[2] # None /\ diff[2].state = RECORD_STATE_FLAG_CREATE

\* C35: the index is well-formed. After any sequence of insert, update,
\* delete, commit, rollback, truncate and pack no id is in the index twice,
\* every id in the index is smaller than len(data), and row(id) is there
\* and not DELETE-flagged for every id in the index.
C35_IndexWellFormed ==
    \A i \in 1..Len(index) :
        /\ Occurrences(index, index[i]) = 1
        /\ index[i] >= 0 /\ index[i] < Len(data)
        /\ Row(Cur, index[i]) # None
        /\ ~HasFlag(Row(Cur, index[i]).state, RECORD_STATE_FLAG_DELETE)

\* The index after the commit of a deleted row 0 and an inserted row 1: it
\* names row 1 alone, and slot 0 is empty.
C35_Witness ==
    /\ index = <<1>>
    /\ Len(data) = 2
    /\ data[1] = None /\ diff[1] = None
    /\ data[2] # None
    /\ last.op = "commit"

\* C36: pack does not change what is visible. From any state that insert,
\* update, delete, commit and rollback reach, select() after pack() returns
\* the rows, field values in order, that select() returns after commit().
C36_PackKeepsSelect ==
    [][(last'.op = "pack" /\ err' = "none") =>
        Select(Cur', NoWhere) = Select(TableCommit(Cur), NoWhere)]_vars

\* C37: pack() on a Proxy goes through Proxy.commit. On a READONLY proxy it
\* raises ProxyError, push() is not called, and data, diff and index are as
\* before. On any other proxy push() is called, and it runs before anything
\* is compacted: it reads select() of the staged table if the proxy is
\* INCREMENTAL and of the committed table if not; if push() fails nothing is
\* compacted, and if it succeeds the table is packed.
C37_ProxyPackCommits ==
    [][last'.op = "proxy_pack" =>
        IF HasFlag(proxy.mode, PROXY_MODE_FLAG_READONLY)
        THEN /\ err' = "ProxyError"
             /\ ~proxy'.saw.called
             /\ proxy'.remote = proxy.remote
             /\ data' = data /\ diff' = diff /\ index' = index
        ELSE LET before == IF HasFlag(proxy.mode, PROXY_MODE_FLAG_INCREMENTAL)
                           THEN Cur ELSE TableCommit(Cur)
             IN  /\ proxy'.saw.called
                 /\ proxy'.saw.rows = Select(before, NoWhere)
                 /\ err' = "PushError" =>
                        /\ data' = before.data
                        /\ index' = before.index
                        /\ proxy'.remote = proxy.remote
                 /\ err' = "none" =>
                        /\ proxy'.remote = Select(before, NoWhere)
                        /\ \A i \in 1..Len(data') :
                               data'[i] # None /\ data'[i].id = i - 1
                        /\ index' = [i \in 1..Len(data') |-> i - 1]
                        /\ Len(diff') = Len(data')]_vars

\* pack() on a proxy that is neither READONLY nor INCREMENTAL has returned:
\* push() wrote no row, because the index of the committed table had lost
\* row 0, and the packed table shows the row again.
C37_Witness ==
    /\ last.op = "proxy_pack"
    /\ err = "none"
    /\ ~HasFlag(proxy.mode, PROXY_MODE_FLAG_READONLY)
    /\ ~HasFlag(proxy.mode, PROXY_MODE_FLAG_INCREMENTAL)
    /\ proxy.saw.called
    /\ proxy.saw.rows = <<>>
    /\ proxy.remote = <<>>
    /\ index = <<0>>
    /\ Len(Select(Cur, NoWhere)) = 1

\* C38: commit and rollback are idempotent on a clean table. A commit()
\* directly after a commit(), a rollback() directly after a commit() and a
\* rollback() directly after a rollback() return and leave data, diff, the
\* index and with them every state flag as they are.
C38_CleanTableIdempotence ==
    [][(\/ last.op = "commit" /\ err = "none"
           /\ last'.op \in {"commit", "rollback"}
        \/ last.op = "rollback" /\ err = "none"
           /\ last'.op = "rollback") =>
        /\ err' = "none"
        /\ data' = data
        /\ diff' = diff
        /\ index' = index]_vars

\* rollback() has returned on a table with two committed rows, and no verb
\* was called between it and the commit or rollback before it.
C38_Witness ==
    /\ last.op = "rollback"
    /\ last.kinds = {}
    /\ err = "none"
    /\ Len(data) = 2
    /\ data[1] # None /\ data[2] # None
    /\ index = <<0, 1>>

\* C39: Cursor.next terminates: for every mode, predicate and table state a
\* call to next() returns a row or raises; no call runs forever.
C39_NextTerminates ==
    last.op = "next" => err # "diverges"

\* C40: what push() reads through select() during Proxy.commit does not
\* depend on the INCREMENTAL bit: the rows are those of select() on the
\* staged table, they are the rows a proxy with the bit flipped reads, and
\* they are the rows of select() on the table after the local commit.
C40_PushContentModeIndependent ==
    [][(last'.op = "proxy_commit" /\ proxy'.saw.called) =>
          LET flipped == [proxy EXCEPT !.mode =
                              IF HasFlag(@, PROXY_MODE_FLAG_INCREMENTAL)
                              THEN @ - PROXY_MODE_FLAG_INCREMENTAL
                              ELSE @ + PROXY_MODE_FLAG_INCREMENTAL]
              other == ProxyCommitResult(flipped, Cur, TRUE).px.saw
              after == [Cur EXCEPT !.data = data', !.diff = diff',
                                   !.index = index']
          IN  /\ other.called
              /\ proxy'.saw.rows = other.rows
              /\ proxy'.saw.rows = Select(Cur, NoWhere)
              /\ proxy'.saw.rows = Select(TableCommit(Cur), NoWhere)
              /\ err' = "none" => proxy'.saw.rows = Select(after, NoWhere)]_vars

\* An INCREMENTAL proxy has committed a staged insert together with a staged
\* delete or update: push() read one row from the table before the commit.
C40_Witness ==
    /\ last.op = "proxy_commit"
    /\ err = "none"
    /\ HasFlag(proxy.mode, PROXY_MODE_FLAG_INCREMENTAL)
    /\ proxy.saw.called
    /\ proxy.saw.dirty
    /\ Len(proxy.saw.rows) = 1
    /\ Len(data) = 2

====
